---- MODULE Spec2Model ----
(***************************************************************************)
(* Tendem MCP server: the tool dispatcher of src/src/tendem_mcp/server.py  *)
(* and the entity model of src/src/tendem_mcp/models.py.                   *)
(*                                                                         *)
(* Every tool is an `async def` run on one event loop, so a handler is     *)
(* atomic between its awaits.  A handler is modelled by one action for the *)
(* synchronous prefix up to its first await (X_call) and one action per    *)
(* awaited client round trip (X_resume), which also runs the code that     *)
(* follows the await.  tendem_mcp/client.py (TendemClient) and the remote  *)
(* service are not in src/: their operations are modelled from spec.md     *)
(* section 4.1 / 4.2 and carry the prefix Client / Service.                *)
(***************************************************************************)
EXTENDS Integers, Sequences, FiniteSets, TLC

VARIABLES
    env,        \* os.environ: the value of TENDEM_API_KEY
    cache,      \* functools.cache of get_client: NoClient or the client
    builds,     \* number of TendemClient(...) constructions so far
    checks,     \* number of executions of get_client's body so far
    tasks,      \* the remote service's tasks
    fs,         \* the local filesystem: directories and files
    calls,      \* per caller: the tool call in flight (position and locals)
    last,       \* outcome of the tool call that finished most recently
    observed,   \* per task: the status the latest successful get_task showed
    tz          \* the timestamp being decoded into a UtcDatetime field

vars == <<env, cache, builds, checks, tasks, fs, calls, last, observed, tz>>

(***************************************************************************)
(* Bounds                                                                  *)
(***************************************************************************)
MaxCallers == 2
MaxCanvases == 2
MaxChecks == 2

Callers == 1..MaxCallers

\* The model follows one task of the service: every tool addresses a task by
\* its identifier and no tool relates two tasks.
TaskNos == {1}

(***************************************************************************)
(* Text.  A str is a sequence of one-character strings where the code      *)
(* looks inside it (identifiers, timestamps), and a tuple of pieces where  *)
(* the code only formats it (f-strings).                                   *)
(***************************************************************************)
Chars(s) == {s[i] : i \in 1..Len(s)}

HexLower == {"0", "1", "2", "3", "4", "5", "6", "7", "8", "9",
             "a", "b", "c", "d", "e", "f"}
HexUpper == {"A", "B", "C", "D", "E", "F"}

Lower(ch) ==
    CASE ch = "A" -> "a" [] ch = "B" -> "b" [] ch = "C" -> "c"
      [] ch = "D" -> "d" [] ch = "E" -> "e" [] ch = "F" -> "f"
      [] OTHER -> ch

Upper(ch) ==
    CASE ch = "a" -> "A" [] ch = "b" -> "B" [] ch = "c" -> "C"
      [] ch = "d" -> "D" [] ch = "e" -> "E" [] ch = "f" -> "F"
      [] OTHER -> ch

Digit == <<"a", "b", "c", "d", "e", "f">>

\* the 32 hex digits of the identifier the service gives task k
HexOf == [k \in TaskNos |-> [i \in 1..32 |-> IF i = 32 THEN Digit[k] ELSE "0"]]

\* 8-4-4-4-12, the form str(UUID) prints and the service returns
Hyphenated(h) ==
    SubSeq(h, 1, 8) \o <<"-">> \o SubSeq(h, 9, 12) \o <<"-">> \o
    SubSeq(h, 13, 16) \o <<"-">> \o SubSeq(h, 17, 20) \o <<"-">> \o
    SubSeq(h, 21, 32)

Malformed == <<"n", "o", "t", "-", "a", "-", "u", "u", "i", "d">>

RECURSIVE StripLeft(_, _)
StripLeft(s, cs) ==
    IF s # <<>> /\ Head(s) \in cs THEN StripLeft(Tail(s), cs) ELSE s

RECURSIVE StripRight(_, _)
StripRight(s, cs) ==
    IF s # <<>> /\ s[Len(s)] \in cs
    THEN StripRight(SubSeq(s, 1, Len(s) - 1), cs) ELSE s

Remove(s, ch) == SelectSeq(s, LAMBDA x : x # ch)

\* uuid.UUID(hex): strip braces, drop hyphens, demand 32 hex digits.  The
\* value is kept as its 32 lower-case digits (128 bits do not fit an int).
UUID(text) ==
    LET h == Remove(StripRight(StripLeft(text, {"{", "}"}), {"{", "}"}), "-")
    IN  IF Len(h) = 32 /\ Chars(h) \subseteq (HexLower \cup HexUpper)
        THEN [ok |-> TRUE, hex |-> [i \in 1..32 |-> Lower(h[i])]]
        ELSE [ok |-> FALSE, hex |-> <<>>]

\* the text a caller passes for task k: hyphenated, upper-case digits
IdText == [k \in TaskNos |->
             Hyphenated([i \in 1..32 |-> Upper(HexOf[k][i])])]

\* the identifier texts a caller passes, and what UUID() makes of each
IdTexts == {IdText[k] : k \in TaskNos} \cup {Malformed}

Parsed == [text \in IdTexts |-> UUID(text)]

(***************************************************************************)
(* models.py: McpTaskStatus                                                *)
(***************************************************************************)
McpTaskStatus ==
    {"DRAFT", "AWAITING_APPROVAL", "PROCESSING", "COMPLETED", "CANCELLED",
     "FAILED"}

Terminal == {"COMPLETED", "CANCELLED", "FAILED"}

\* StrEnum: the member's .value
StatusValue(s) ==
    CASE s = "DRAFT" -> "DRAFT"
      [] s = "AWAITING_APPROVAL" -> "AWAITING_APPROVAL"
      [] s = "PROCESSING" -> "PROCESSING"
      [] s = "COMPLETED" -> "COMPLETED"
      [] s = "CANCELLED" -> "CANCELLED"
      [] s = "FAILED" -> "FAILED"

(***************************************************************************)
(* server.py: get_client, a functools.cache around the factory body.       *)
(* functools.cache stores a value only when the body returns: a raised     *)
(* exception is not stored, and the next call runs the body again.         *)
(***************************************************************************)
NoClient == [id |-> 0, api_key |-> "-"]
NoKey == "<unset>"

\* `if not api_key`: None and '' are both falsy
FalsyNoneOnly(v) == v = NoKey

Falsy(v) == v = NoKey \/ v = ""

\* @cache: a stored client is handed out again
CacheHitNever(c) == FALSE

CacheHit(c) == c # NoClient

\* the call get_client() in the current state: what it returns or raises and
\* what it leaves behind
get_client ==
    IF CacheHit(cache)
    THEN [raised |-> FALSE, client |-> cache, cache |-> cache,
          builds |-> builds, checks |-> checks]
    ELSE IF Falsy(env)
    THEN [raised |-> TRUE, client |-> NoClient, cache |-> cache,
          builds |-> builds, checks |-> checks + 1]
    ELSE LET new == [id |-> builds + 1, api_key |-> env]
         IN  [raised |-> FALSE, client |-> new, cache |-> new,
              builds |-> builds + 1, checks |-> checks + 1]

\* the model stops starting calls once the body has run MaxChecks times
\* without a client to show for it
MayCall == CacheHit(cache) \/ checks < MaxChecks

ConfigError == "ValueError: TENDEM_API_KEY environment variable is required"
ArgumentError == "ValueError: badly formed hexadecimal UUID string"

(***************************************************************************)
(* The remote service's tasks (spec.md 3 and 4.2) and the client           *)
(* operations on them (spec.md 4.1).                                       *)
(***************************************************************************)
NoPrice == "<none>"
Prices == {"12.50"}

Absent == [status |-> "ABSENT", price |-> NoPrice, canvases |-> 0]

Created(k) == tasks[k].status # "ABSENT"

\* the task an identifier names, 0 when the service knows none
TaskOf(hex) ==
    IF \E k \in TaskNos : HexOf[k] = hex /\ Created(k)
    THEN CHOOSE k \in TaskNos : HexOf[k] = hex /\ Created(k)
    ELSE 0

\* McpTaskView as the client decodes it
McpTaskView(k) ==
    [task_id |-> HexOf[k], status |-> tasks[k].status,
     approval_request_info |-> tasks[k].price]

\* the i-th canvas a task got holds content <<"canvas", i>>; the service
\* lists them newest first
CanvasContent(i) == <<"canvas", i>>

\* McpCanvasView as the client decodes it
McpCanvasView(i) == [version_id |-> i, content |-> CanvasContent(i)]

CanvasesNewestFirst(k) ==
    [i \in 1..tasks[k].canvases |-> McpCanvasView(tasks[k].canvases + 1 - i)]

\* the service's tasks as a listing
TaskList ==
    IF Created(1) THEN <<McpTaskView(1)>> ELSE <<>>

Min(a, b) == IF a < b THEN a ELSE b

\* one page of a newest-first listing
Page(items, page_number, page_size) ==
    LET from == page_number * page_size + 1
        to == Min(Len(items), (page_number + 1) * page_size)
    IN  IF from > Len(items) THEN <<>> ELSE SubSeq(items, from, to)

ValidPaging(page_number, page_size) ==
    page_number >= 0 /\ page_size >= 1 /\ page_size <= 100

\* pages = ceil(total / page_size), 0 when total is 0
Pages(total, page_size) == (total + page_size - 1) \div page_size

Ok(v) == [ok |-> TRUE, err |-> "none", value |-> v]
Err(e) == [ok |-> FALSE, err |-> e, value |-> "none"]

\* get_task: "not found" if the id is unknown
ClientGetTask(hex, net) ==
    IF ~net THEN Err("transport")
    ELSE IF TaskOf(hex) = 0 THEN Err("not_found")
    ELSE Ok(McpTaskView(TaskOf(hex)))

\* approve_task: fails if the task is not in AWAITING_APPROVAL
ApproveAllowed(status) == status = "AWAITING_APPROVAL"

ClientApproveTask(hex, net) ==
    IF ~net THEN Err("transport")
    ELSE IF TaskOf(hex) = 0 THEN Err("not_found")
    ELSE IF ~ApproveAllowed(tasks[TaskOf(hex)].status) THEN Err("illegal_state")
    ELSE Ok("none")

\* cancel_task: fails if the task is already terminal
CancelAllowedAlways(status) == TRUE

CancelAllowed(status) == status \notin Terminal

ClientCancelTask(hex, net) ==
    IF ~net THEN Err("transport")
    ELSE IF TaskOf(hex) = 0 THEN Err("not_found")
    ELSE IF ~CancelAllowed(tasks[TaskOf(hex)].status) THEN Err("illegal_state")
    ELSE Ok("none")

\* get_task_results: a page of canvases, newest first; an empty collection
\* if there are no results yet
ClientGetTaskResults(hex, page_number, page_size, net) ==
    IF ~net THEN Err("transport")
    ELSE IF TaskOf(hex) = 0 THEN Err("not_found")
    ELSE IF ~ValidPaging(page_number, page_size) THEN Err("rejected")
    ELSE Ok([canvases |->
                Page(CanvasesNewestFirst(TaskOf(hex)), page_number, page_size),
             total |-> tasks[TaskOf(hex)].canvases,
             page_number |-> page_number,
             page_size |-> page_size,
             pages |-> Pages(tasks[TaskOf(hex)].canvases, page_size)])

\* list_tasks: a page of the tasks
ClientListTasks(page_number, page_size, net) ==
    IF ~net THEN Err("transport")
    ELSE IF ~ValidPaging(page_number, page_size) THEN Err("rejected")
    ELSE Ok([tasks |-> Page(TaskList, page_number, page_size),
             total |-> Len(TaskList),
             page_number |-> page_number,
             page_size |-> page_size,
             pages |-> Pages(Len(TaskList), page_size)])

(***************************************************************************)
(* Tool calls                                                              *)
(***************************************************************************)
Idle == [pc |-> "idle"]

\* stands for "no results page was fetched"
NoPage == <<[version_id |-> 0, content |-> <<"<no page>">>]>>

\* The record of a finished tool call: the tool, its textual task_id, whether
\* it returned ("ok") or raised ("error"), the value or the exception, and for
\* get_task_result the status its get_task round trip saw and the results
\* page it fetched, if it came that far.
Result(tool, text, outcome, e, v, status, page) ==
    [tool |-> tool, task_id |-> text, outcome |-> outcome, err |-> e,
     value |-> v, status |-> status, page |-> page]

\* a str value handed back by a tool (the other tools hand back records)
Text(parts) == [text |-> parts]

NoCall == Result("none", <<>>, "none", "none", Text(<<>>), "none", NoPage)

Failed(tool, text, e) ==
    Result(tool, text, "error", e, Text(<<>>), "none", NoPage)

Returned(tool, text, v) == Result(tool, text, "ok", "none", v, "none", NoPage)

\* get_client() and what it leaves behind
RunGetClient ==
    /\ MayCall
    /\ cache' = get_client.cache
    /\ builds' = get_client.builds
    /\ checks' = get_client.checks

\* `get_client().op(UUID(task_id))` up to the await: the factory runs first,
\* then the argument is parsed, then the client operation is entered
CallWithId(c, tool, text) ==
    /\ calls[c] = Idle
    /\ RunGetClient
    /\ IF get_client.raised
       THEN /\ last' = Failed(tool, text, ConfigError)
            /\ calls' = calls
       ELSE IF ~Parsed[text].ok
       THEN /\ last' = Failed(tool, text, ArgumentError)
            /\ calls' = calls
       ELSE /\ calls' = [calls EXCEPT ![c] =
                            [pc |-> "await", tool |-> tool, task_id |-> text,
                             uuid |-> Parsed[text].hex, status |-> "none",
                             client |-> get_client.client.id]]
            /\ last' = last
    /\ UNCHANGED <<env, tasks, fs, observed, tz>>

Awaiting(c, tool) == calls[c].pc = "await" /\ calls[c].tool = tool

-----------------------------------------------------------------------------
\* server.py create_task
create_task_call(c) ==
    /\ calls[c] = Idle
    /\ \E k \in TaskNos : ~Created(k)
    /\ RunGetClient
    /\ IF get_client.raised
       THEN /\ last' = Failed("create_task", <<>>, ConfigError)
            /\ calls' = calls
       ELSE /\ calls' = [calls EXCEPT ![c] =
                            [pc |-> "await", tool |-> "create_task",
                             client |-> get_client.client.id]]
            /\ last' = last
    /\ UNCHANGED <<env, tasks, fs, observed, tz>>

create_task_resume(c) ==
    /\ Awaiting(c, "create_task")
    /\ \E net \in BOOLEAN :
         LET free == {k \in TaskNos : ~Created(k)}
             k == CHOOSE k \in free : \A j \in free : k <= j
         IN  /\ net => free # {}
             /\ tasks' = IF net
                         THEN [tasks EXCEPT ![k] =
                                  [status |-> "DRAFT", price |-> NoPrice,
                                   canvases |-> 0]]
                         ELSE tasks
             /\ last' = IF net
                        THEN Returned("create_task", <<>>,
                                 [task_id |-> HexOf[k], status |-> "DRAFT",
                                  approval_request_info |-> NoPrice])
                        ELSE Failed("create_task", <<>>, "transport")
    /\ calls' = [calls EXCEPT ![c] = Idle]
    /\ UNCHANGED <<env, cache, builds, checks, fs, observed, tz>>

\* server.py get_task
get_task_call(c) == \E text \in IdTexts : CallWithId(c, "get_task", text)

get_task_resume(c) ==
    /\ Awaiting(c, "get_task")
    /\ \E net \in BOOLEAN :
         LET r == ClientGetTask(calls[c].uuid, net)
         IN  IF r.ok
             THEN /\ last' = Returned("get_task", calls[c].task_id, r.value)
                  /\ observed' = [observed EXCEPT ![TaskOf(calls[c].uuid)] =
                                     r.value.status]
             ELSE /\ last' = Failed("get_task", calls[c].task_id, r.err)
                  /\ observed' = observed
    /\ calls' = [calls EXCEPT ![c] = Idle]
    /\ UNCHANGED <<env, cache, builds, checks, tasks, fs, tz>>

\* server.py approve_task
ApprovedMessage(text) == <<"Task ", text, " approved">>

\* what the tool hands back once the awaited client operation has ended
AfterAwaitSwallow(tool, text, r, message) ==
    Returned(tool, text, Text(message))

AfterAwait(tool, text, r, message) ==
    IF r.ok THEN Returned(tool, text, Text(message))
    ELSE Failed(tool, text, r.err)

approve_task_call(c) ==
    \E text \in IdTexts : CallWithId(c, "approve_task", text)

approve_task_resume(c) ==
    /\ Awaiting(c, "approve_task")
    /\ \E net \in BOOLEAN :
         LET r == ClientApproveTask(calls[c].uuid, net)
         IN  /\ tasks' = IF r.ok
                         THEN [tasks EXCEPT ![TaskOf(calls[c].uuid)].status =
                                  "PROCESSING"]
                         ELSE tasks
             /\ last' = AfterAwait("approve_task", calls[c].task_id, r,
                                   ApprovedMessage(calls[c].task_id))
    /\ calls' = [calls EXCEPT ![c] = Idle]
    /\ UNCHANGED <<env, cache, builds, checks, fs, observed, tz>>

\* server.py cancel_task
CancelledMessage(text) == <<"Task ", text, " cancelled">>

cancel_task_call(c) ==
    \E text \in IdTexts : CallWithId(c, "cancel_task", text)

cancel_task_resume(c) ==
    /\ Awaiting(c, "cancel_task")
    /\ \E net \in BOOLEAN :
         LET r == ClientCancelTask(calls[c].uuid, net)
         IN  /\ tasks' = IF r.ok
                         THEN [tasks EXCEPT ![TaskOf(calls[c].uuid)].status =
                                  "CANCELLED"]
                         ELSE tasks
             /\ last' = AfterAwait("cancel_task", calls[c].task_id, r,
                                   CancelledMessage(calls[c].task_id))
    /\ calls' = [calls EXCEPT ![c] = Idle]
    /\ UNCHANGED <<env, cache, builds, checks, fs, observed, tz>>

\* server.py get_task_result
NotCompletedMessage(status) ==
    <<"Error: Task is not completed (status: ", StatusValue(status), ")">>

NoResultsMessage == <<"Error: No results found for completed task">>

\* `if task.status != McpTaskStatus.COMPLETED`
IsCompletedAlways(status) == TRUE

IsCompleted(status) == status = "COMPLETED"

\* `results.canvases[0].content`
PickCanvas(canvases) == canvases[1].content

\* `page_number=0, page_size=1`
SecondPage == [page_number |-> 1, page_size |-> 1]

LatestPage == [page_number |-> 0, page_size |-> 1]

get_task_result_call(c) ==
    \E text \in IdTexts : CallWithId(c, "get_task_result", text)

\* client.get_task returns; the status test; get_task_results is entered
get_task_result_resume(c) ==
    /\ Awaiting(c, "get_task_result")
    /\ \E net \in BOOLEAN :
         LET r == ClientGetTask(calls[c].uuid, net)
             text == calls[c].task_id
         IN  IF ~r.ok
             THEN /\ last' = Failed("get_task_result", text, r.err)
                  /\ calls' = [calls EXCEPT ![c] = Idle]
             ELSE IF ~IsCompleted(r.value.status)
             THEN /\ last' = Result("get_task_result", text, "ok", "none",
                                Text(NotCompletedMessage(r.value.status)),
                                r.value.status, NoPage)
                  /\ calls' = [calls EXCEPT ![c] = Idle]
             ELSE /\ last' = last
                  /\ calls' = [calls EXCEPT ![c].pc = "await_results",
                                            ![c].status = r.value.status]
    /\ UNCHANGED <<env, cache, builds, checks, tasks, fs, observed, tz>>

\* client.get_task_results returns
get_task_result_results(c) ==
    /\ calls[c].pc = "await_results"
    /\ \E net \in BOOLEAN :
         LET r == ClientGetTaskResults(calls[c].uuid, LatestPage.page_number,
                                          LatestPage.page_size, net)
             text == calls[c].task_id
         IN  last' =
               IF ~r.ok
               THEN Result("get_task_result", text, "error", r.err, Text(<<>>),
                           calls[c].status, NoPage)
               ELSE IF r.value.canvases = <<>>
               THEN Result("get_task_result", text, "ok", "none",
                           Text(NoResultsMessage), calls[c].status,
                           r.value.canvases)
               ELSE Result("get_task_result", text, "ok", "none",
                           Text(PickCanvas(r.value.canvases)), calls[c].status,
                           r.value.canvases)
    /\ calls' = [calls EXCEPT ![c] = Idle]
    /\ UNCHANGED <<env, cache, builds, checks, tasks, fs, observed, tz>>

-----------------------------------------------------------------------------
\* The service's own steps (spec.md 4.2)
ServiceQuote(k) ==
    /\ tasks[k].status = "DRAFT"
    /\ \E p \in Prices :
         tasks' = [tasks EXCEPT ![k].status = "AWAITING_APPROVAL",
                                ![k].price = p]
    /\ UNCHANGED <<env, cache, builds, checks, fs, calls, last, observed, tz>>

ServiceDraft(k) ==
    /\ tasks[k].status = "PROCESSING"
    /\ tasks[k].canvases < MaxCanvases
    /\ tasks' = [tasks EXCEPT ![k].canvases = @ + 1]
    /\ UNCHANGED <<env, cache, builds, checks, fs, calls, last, observed, tz>>

ServiceComplete(k) ==
    /\ tasks[k].status = "PROCESSING"
    /\ tasks' = [tasks EXCEPT ![k].status = "COMPLETED"]
    /\ UNCHANGED <<env, cache, builds, checks, fs, calls, last, observed, tz>>

ServiceFail(k) ==
    /\ tasks[k].status \in McpTaskStatus \ Terminal
    /\ tasks' = [tasks EXCEPT ![k].status = "FAILED"]
    /\ UNCHANGED <<env, cache, builds, checks, fs, calls, last, observed, tz>>

-----------------------------------------------------------------------------
\* The local filesystem under the working directory.  A path text is the
\* sequence of its segments between "/" ("./out//a.bin" has the segments ".",
\* "out", "", "a.bin").
PathArgs == {<<"out", "a.bin">>, <<".", "out", "", "a.bin">>, <<"out">>}

\* pathlib.Path(path): empty and "." segments drop out
Path(text) == SelectSeq(text, LAMBDA seg : seg \notin {"", "."})

\* str(file_path), as the f-string prints it
RECURSIVE PathStr(_)
PathStr(p) ==
    IF p = <<>> THEN <<".">>
    ELSE IF Len(p) = 1 THEN p
    ELSE <<Head(p), "/">> \o PathStr(Tail(p))

\* file_path.parent
Parent(p) == IF p = <<>> THEN <<>> ELSE SubSeq(p, 1, Len(p) - 1)

Locations == {Path(a) : a \in PathArgs}

NoFile == <<-1>>

NoFs == [dirs |-> {}, files |-> [p \in Locations |-> NoFile]]

IsDir(fsys, p) == p = <<>> \/ p \in fsys.dirs

IsFile(fsys, p) == p \in Locations /\ fsys.files[p] # NoFile

Prefixes(p) == {SubSeq(p, 1, n) : n \in 1..Len(p)}

\* mkdir(parents=True, exist_ok=True): every missing ancestor is made; a file
\* in the way raises, and then nothing was made
Mkdir(fsys, dir) ==
    IF \E q \in Prefixes(dir) : IsFile(fsys, q)
    THEN [ok |-> FALSE, fs |-> fsys]
    ELSE [ok |-> TRUE, fs |-> [fsys EXCEPT !.dirs = @ \cup Prefixes(dir)]]

\* write_bytes(content): opens the file for writing, which empties it, and
\* writes; `written` bytes reach the file before the operating system stops
\* the write, and anything short of all of them raises
WriteBytesShort(fsys, p, content, written) ==
    [ok |-> TRUE, fs |-> [fsys EXCEPT !.files[p] = SubSeq(content, 1, written)]]

WriteBytes(fsys, p, content, written) ==
    IF IsDir(fsys, p) \/ p \notin Locations
    THEN [ok |-> FALSE, fs |-> fsys]
    ELSE [ok |-> written = Len(content),
          fs |-> [fsys EXCEPT !.files[p] = SubSeq(content, 1, written)]]

\* `f'Artifact saved to {file_path} ({len(content)} bytes)'`
SavedMessage(file_path, content) ==
    <<"Artifact saved to ", PathStr(file_path), " (", Len(content), " bytes)">>

\* The artifacts the canvases of the task refer to, and their bytes
ArtifactHex ==
    [a \in {1, 2} |-> [i \in 1..32 |-> IF i = 32 THEN Digit[a + 2] ELSE "0"]]

ArtifactBytes == <<(<<80, 75>>), (<<37>>)>>

ArtifactText == [a \in {1, 2} |-> Hyphenated(ArtifactHex[a])]

ArtifactTexts == {ArtifactText[a] : a \in {1, 2}} \cup {Malformed}

ArtifactParsed == [text \in ArtifactTexts |-> UUID(text)]

\* get_artifact: raw bytes; "not found" if artifact and task do not match
ClientGetArtifact(hex, artifact_id, net) ==
    IF ~net THEN Err("transport")
    ELSE IF TaskOf(hex) = 0 \/ tasks[TaskOf(hex)].canvases = 0
    THEN Err("not_found")
    ELSE IF \E a \in {1, 2} : ArtifactParsed[artifact_id].hex = ArtifactHex[a]
    THEN Ok(ArtifactBytes[CHOOSE a \in {1, 2} :
                             ArtifactParsed[artifact_id].hex = ArtifactHex[a]])
    ELSE Err("not_found")

\* server.py download_artifact: task_id is parsed, artifact_id and path go on
\* as they came
download_artifact_call(c) ==
    /\ calls[c] = Idle
    /\ RunGetClient
    /\ \E text \in IdTexts, artifact_id \in ArtifactTexts, path \in PathArgs :
         IF get_client.raised
         THEN /\ last' = Failed("download_artifact", text, ConfigError)
              /\ calls' = calls
         ELSE IF ~Parsed[text].ok
         THEN /\ last' = Failed("download_artifact", text, ArgumentError)
              /\ calls' = calls
         ELSE /\ calls' = [calls EXCEPT ![c] =
                              [pc |-> "await", tool |-> "download_artifact",
                               task_id |-> text, uuid |-> Parsed[text].hex,
                               artifact_id |-> artifact_id, path |-> path,
                               client |-> get_client.client.id]]
              /\ last' = last
    /\ UNCHANGED <<env, tasks, fs, observed, tz>>

\* get_artifact returns; then mkdir, write_bytes and the message
SaveArtifact(fsys, path, content, written) ==
    LET file_path == Path(path)
        made == Mkdir(fsys, Parent(file_path))
        wrote == WriteBytes(made.fs, file_path, content, written)
    IN  IF ~made.ok THEN [ok |-> FALSE, err |-> "FileExistsError", fs |-> fsys]
        ELSE IF ~wrote.ok THEN [ok |-> FALSE, err |-> "OSError", fs |-> wrote.fs]
        ELSE [ok |-> TRUE, err |-> "none", fs |-> wrote.fs]

download_artifact_resume(c) ==
    /\ Awaiting(c, "download_artifact")
    /\ \E net \in BOOLEAN :
         LET r == ClientGetArtifact(calls[c].uuid, calls[c].artifact_id, net)
             text == calls[c].task_id
         IN  IF ~r.ok
             THEN /\ last' = Failed("download_artifact", text, r.err)
                  /\ fs' = fs
             ELSE \E written \in 0..Len(r.value) :
                    LET saved == SaveArtifact(fs, calls[c].path, r.value, written)
                    IN  /\ fs' = saved.fs
                        /\ last' =
                             IF saved.ok
                             THEN Returned("download_artifact", text,
                                      Text(SavedMessage(Path(calls[c].path),
                                                        r.value)))
                             ELSE Failed("download_artifact", text, saved.err)
    /\ calls' = [calls EXCEPT ![c] = Idle]
    /\ UNCHANGED <<env, cache, builds, checks, tasks, observed, tz>>

-----------------------------------------------------------------------------
NoTz == [kind |-> "none"]

Init ==
    /\ env \in {NoKey, "", "key"}
    /\ cache = NoClient
    /\ builds = 0
    /\ checks = 0
    /\ tasks = [k \in TaskNos |-> Absent]
    /\ fs = NoFs
    /\ calls = [c \in Callers |-> Idle]
    /\ last = NoCall
    /\ observed = [k \in TaskNos |-> "ABSENT"]
    /\ tz = NoTz

Next ==
    \/ \E c \in Callers : create_task_call(c)
    \/ \E c \in Callers : create_task_resume(c)
    \/ \E c \in Callers : get_task_call(c)
    \/ \E c \in Callers : get_task_resume(c)
    \/ \E c \in Callers : approve_task_call(c)
    \/ \E c \in Callers : approve_task_resume(c)
    \/ \E c \in Callers : cancel_task_call(c)
    \/ \E c \in Callers : cancel_task_resume(c)
    \/ \E c \in Callers : get_task_result_call(c)
    \/ \E c \in Callers : get_task_result_resume(c)
    \/ \E c \in Callers : get_task_result_results(c)
    \/ \E k \in TaskNos : ServiceQuote(k)
    \/ \E k \in TaskNos : ServiceDraft(k)
    \/ \E k \in TaskNos : ServiceComplete(k)
    \/ \E k \in TaskNos : ServiceFail(k)

Spec == Init /\ [][Next]_vars
-----------------------------------------------------------------------------
\* The page arguments a caller passes
PageNumbers == {-1, 0, 1}
PageSizes == {0, 1, 101}

\* server.py list_tasks: the arguments go to the client as they came
list_tasks_call(c) ==
    /\ calls[c] = Idle
    /\ RunGetClient
    /\ \E page_number \in PageNumbers, page_size \in PageSizes :
         IF get_client.raised
         THEN /\ last' = Failed("list_tasks", <<>>, ConfigError)
              /\ calls' = calls
         ELSE /\ calls' = [calls EXCEPT ![c] =
                              [pc |-> "await", tool |-> "list_tasks",
                               page_number |-> page_number,
                               page_size |-> page_size,
                               client |-> get_client.client.id]]
              /\ last' = last
    /\ UNCHANGED <<env, tasks, fs, observed, tz>>

list_tasks_resume(c) ==
    /\ Awaiting(c, "list_tasks")
    /\ \E net \in BOOLEAN :
         LET r == ClientListTasks(calls[c].page_number, calls[c].page_size, net)
         IN  last' = IF r.ok THEN Returned("list_tasks", <<>>, r.value)
                     ELSE Failed("list_tasks", <<>>, r.err)
    /\ calls' = [calls EXCEPT ![c] = Idle]
    /\ UNCHANGED <<env, cache, builds, checks, tasks, fs, observed, tz>>

\* models.py McpCanvasToolResult: a canvas without its internal ids
McpCanvasToolResult(canvas) == [content |-> canvas.content]

\* models.py McpAllTaskResultsToolResult, as get_all_task_results builds it
McpAllTaskResultsToolResult(results) ==
    [results |-> [i \in 1..Len(results.canvases) |->
                     McpCanvasToolResult(results.canvases[i])],
     total |-> results.total,
     page_number |-> results.page_number,
     page_size |-> results.page_size,
     pages |-> results.pages]

\* server.py get_all_task_results
get_all_task_results_call(c) ==
    /\ calls[c] = Idle
    /\ RunGetClient
    /\ \E text \in IdTexts, page_number \in PageNumbers, page_size \in PageSizes :
         IF get_client.raised
         THEN /\ last' = Failed("get_all_task_results", text, ConfigError)
              /\ calls' = calls
         ELSE IF ~Parsed[text].ok
         THEN /\ last' = Failed("get_all_task_results", text, ArgumentError)
              /\ calls' = calls
         ELSE /\ calls' = [calls EXCEPT ![c] =
                              [pc |-> "await", tool |-> "get_all_task_results",
                               task_id |-> text, uuid |-> Parsed[text].hex,
                               page_number |-> page_number,
                               page_size |-> page_size,
                               client |-> get_client.client.id]]
              /\ last' = last
    /\ UNCHANGED <<env, tasks, fs, observed, tz>>

get_all_task_results_resume(c) ==
    /\ Awaiting(c, "get_all_task_results")
    /\ \E net \in BOOLEAN :
         LET r == ClientGetTaskResults(calls[c].uuid, calls[c].page_number,
                                       calls[c].page_size, net)
         IN  last' = IF r.ok
                     THEN Returned("get_all_task_results", calls[c].task_id,
                                   McpAllTaskResultsToolResult(r.value))
                     ELSE Failed("get_all_task_results", calls[c].task_id,
                                 r.err)
    /\ calls' = [calls EXCEPT ![c] = Idle]
    /\ UNCHANGED <<env, cache, builds, checks, tasks, fs, observed, tz>>

\* The states a task of the service can be in when the server starts
ServiceStates ==
    {Absent, [status |-> "DRAFT", price |-> NoPrice, canvases |-> 0]}
    \cup [status : {"AWAITING_APPROVAL"}, price : Prices, canvases : {0}]
    \cup [status : {"PROCESSING", "COMPLETED", "CANCELLED", "FAILED"},
          price : Prices, canvases : 0..MaxCanvases]
    \cup [status : {"CANCELLED", "FAILED"}, price : {NoPrice}, canvases : {0}]

InitServed ==
    /\ env \in {NoKey, "", "key"}
    /\ cache = NoClient
    /\ builds = 0
    /\ checks = 0
    /\ tasks \in [TaskNos -> ServiceStates]
    /\ fs = NoFs
    /\ calls = [c \in Callers |-> Idle]
    /\ last = NoCall
    /\ observed = [k \in TaskNos |-> "ABSENT"]
    /\ tz = NoTz

NextPaging ==
    \/ \E c \in Callers : list_tasks_call(c)
    \/ \E c \in Callers : list_tasks_resume(c)
    \/ \E c \in Callers : get_all_task_results_call(c)
    \/ \E c \in Callers : get_all_task_results_resume(c)

SpecPaging == InitServed /\ [][NextPaging]_vars

InitFiles ==
    /\ env \in {NoKey, "", "key"}
    /\ cache = NoClient
    /\ builds = 0
    /\ checks = 0
    /\ tasks = [k \in TaskNos |->
                  [status |-> "COMPLETED", price |-> "12.50", canvases |-> 1]]
    /\ fs = NoFs
    /\ calls = [c \in Callers |-> Idle]
    /\ last = NoCall
    /\ observed = [k \in TaskNos |-> "ABSENT"]
    /\ tz = NoTz

NextFiles ==
    \/ \E c \in Callers : download_artifact_call(c)
    \/ \E c \in Callers : download_artifact_resume(c)

SpecFiles == InitFiles /\ [][NextFiles]_vars

-----------------------------------------------------------------------------
\* models.py: _ensure_timezone, the BeforeValidator of every UtcDatetime
\* field.  A value is a str (its characters) or a datetime (its wall time
\* and its tzinfo, "None" when naive).
StrValue(s) == [kind |-> "str", s |-> s, wall |-> <<>>, tzinfo |-> "-"]
DatetimeValue(wall, tzinfo) ==
    [kind |-> "datetime", s |-> <<>>, wall |-> wall, tzinfo |-> tzinfo]

EndsWith(s, ch) == s # <<>> /\ s[Len(s)] = ch

_ensure_timezone(v) ==
    IF v.kind = "str" /\ "+" \notin Chars(v.s) /\ "Z" \notin Chars(v.s)
       /\ ~EndsWith(v.s, "z")
    THEN StrValue(v.s \o <<"Z">>)
    ELSE IF v.kind = "datetime" /\ v.tzinfo = "None"
    THEN [v EXCEPT !.tzinfo = "UTC"]
    ELSE v

\* The timestamps the wire may carry
Dates == {<<"2", "0", "2", "4", "-", "0", "1", "-", "1", "5">>,
          <<"2", "0", "2", "5", "-", "1", "2", "-", "3", "1">>,
          <<"1", "9", "9", "9", "-", "0", "6", "-", "0", "1">>}

Times == {<<"T", "1", "0", ":", "3", "0", ":", "0", "0">>,
          <<" ", "2", "3", ":", "5", "9", ":", "5", "9">>,
          <<"T", "0", "0", ":", "0", "0", ":", "0", "0", ".", "5">>}

Zones == {<<>>, <<"Z">>, <<"z">>,
          <<"+", "0", "0", ":", "0", "0">>, <<"+", "0", "5", ":", "3", "0">>,
          <<"-", "0", "5", ":", "0", "0">>, <<"-", "0", "0", ":", "0", "0">>,
          <<"-", "0", "8", "0", "0">>}

WireValues ==
    {StrValue(d \o t \o z) : d \in Dates, t \in Times, z \in Zones}
    \cup {DatetimeValue(d \o t, z) :
            d \in Dates, t \in Times, z \in {"None", "UTC", "+05:30", "-05:00"}}

\* a UtcDatetime field is decoded: the validator runs on the wire value
Decode ==
    /\ tz.kind = "wire"
    /\ tz' = [kind |-> "decoded", v |-> tz.v, out |-> _ensure_timezone(tz.v)]
    /\ UNCHANGED <<env, cache, builds, checks, tasks, fs, calls, last, observed>>

InitTz ==
    /\ env = "key"
    /\ cache = NoClient
    /\ builds = 0
    /\ checks = 0
    /\ tasks = [k \in TaskNos |-> Absent]
    /\ fs = NoFs
    /\ calls = [c \in Callers |-> Idle]
    /\ last = NoCall
    /\ observed = [k \in TaskNos |-> "ABSENT"]
    /\ tz \in {[kind |-> "wire", v |-> v, out |-> v] : v \in WireValues}

NextTz == Decode

SpecTz == InitTz /\ [][NextTz]_vars

-----------------------------------------------------------------------------
\* The workflow the tools' docstrings describe: create the task, poll with
\* get_task, approve once AWAITING_APPROVAL has been seen, poll on, and fetch
\* the result once COMPLETED has been seen.  Nobody cancels.
ApproveWhenQuoted(c) ==
    /\ observed[1] = "AWAITING_APPROVAL"
    /\ CallWithId(c, "approve_task", IdText[1])

ResultWhenCompleted(c) ==
    /\ observed[1] = "COMPLETED"
    /\ CallWithId(c, "get_task_result", IdText[1])

Poll(c) == CallWithId(c, "get_task", IdText[1])

NextWorkflow ==
    \/ \E c \in Callers : create_task_call(c)
    \/ \E c \in Callers : create_task_resume(c)
    \/ \E c \in Callers : Poll(c)
    \/ \E c \in Callers : get_task_resume(c)
    \/ \E c \in Callers : ApproveWhenQuoted(c)
    \/ \E c \in Callers : approve_task_resume(c)
    \/ \E c \in Callers : ResultWhenCompleted(c)
    \/ \E c \in Callers : get_task_result_resume(c)
    \/ \E c \in Callers : get_task_result_results(c)
    \/ \E k \in TaskNos : ServiceQuote(k)
    \/ \E k \in TaskNos : ServiceDraft(k)
    \/ \E k \in TaskNos : ServiceComplete(k)
    \/ \E k \in TaskNos : ServiceFail(k)

\* an awaited client operation of caller c ends
Resume(c) ==
    \/ create_task_resume(c)
    \/ get_task_resume(c)
    \/ approve_task_resume(c)
    \/ get_task_result_resume(c)
    \/ get_task_result_results(c)

\* ... and ends well
ResumeOk(c) == Resume(c) /\ last'.outcome = "ok"

InitWorkflow == Init /\ env = "key"

\* Fair service progress (the service prices and completes what it holds),
\* no client operation blocks for ever, the caller keeps polling and keeps
\* approving while there is something to approve, and the transport does not
\* fail for ever.
FairSpec ==
    /\ InitWorkflow
    /\ [][NextWorkflow]_vars
    /\ \A k \in TaskNos : WF_vars(ServiceQuote(k)) /\ WF_vars(ServiceComplete(k))
    /\ \A c \in Callers : WF_vars(Resume(c))
    /\ SF_vars(\E c \in Callers : Poll(c))
    /\ SF_vars(\E c \in Callers : ApproveWhenQuoted(c))
    /\ SF_vars(\E c \in Callers : Awaiting(c, "get_task") /\ ResumeOk(c))
    /\ SF_vars(\E c \in Callers : Awaiting(c, "approve_task") /\ ResumeOk(c))


(***************************************************************************)
(* Claims checked under Spec                                               *)
(***************************************************************************)
InFlight == {c \in Callers : calls[c] # Idle}

\* C1: get_task_result returns exactly the "not completed" text, with the
\* status it saw, for every status other than COMPLETED; the "no results"
\* text exactly when it saw COMPLETED and the results page is empty; and
\* otherwise the content of the first canvas of the page, which is the task's
\* newest canvas. In none of these cases does the call raise.
C1_GetTaskResultCases ==
    (last.tool = "get_task_result" /\ last.status # "none") =>
        /\ last.status # "COMPLETED" =>
             /\ last.outcome = "ok"
             /\ last.value.text =
                  <<"Error: Task is not completed (status: ", last.status, ")">>
             /\ last.status \in
                  {"DRAFT", "AWAITING_APPROVAL", "PROCESSING", "CANCELLED",
                   "FAILED"}
        /\ (last.status = "COMPLETED" /\ last.page # NoPage) =>
             /\ last.outcome = "ok"
             /\ last.page = <<>> =>
                  last.value.text = <<"Error: No results found for completed task">>
             /\ last.page # <<>> =>
                  /\ last.value.text = last.page[1].content
                  /\ last.value.text = <<"canvas", tasks[1].canvases>>
        /\ last.value.text = <<"Error: No results found for completed task">> =>
             last.status = "COMPLETED" /\ last.page = <<>>

C1_Witness ==
    /\ last.tool = "get_task_result"
    /\ last.status = "COMPLETED"
    /\ tasks[1].canvases = 2
    /\ last.value.text = <<"canvas", 2>>

C1_WitnessNotCompleted ==
    /\ last.tool = "get_task_result"
    /\ last.value.text = <<"Error: Task is not completed (status: ", "PROCESSING", ")">>

C1_WitnessNoResults ==
    /\ last.tool = "get_task_result"
    /\ last.value.text = <<"Error: No results found for completed task">>

\* C2: however the first calls of the callers interleave, at most one
\* TendemClient is constructed, and every caller that got past get_client
\* holds that one instance.
C2_OneClient ==
    /\ builds <= 1
    /\ \A c \in InFlight : builds = 1 /\ calls[c].client = 1 /\ cache.id = 1

C2_Witness ==
    /\ Cardinality(InFlight) >= 2
    /\ builds = 1
    /\ \A c \in InFlight : calls[c].client = cache.id

\* C6 as stated: with the API key absent, the credential check runs once, at
\* first use, and no later call runs it again or constructs a client.
KeyAbsent == env \in {NoKey, ""}

C6_CheckedOnce == KeyAbsent => (checks <= 1 /\ builds = 0)

\* C6 as the code has it: with the API key absent no client is ever
\* constructed or cached, no call gets past get_client, and every call made
\* so far, not only the first, has failed with the configuration error.
C6_EveryCallFails ==
    KeyAbsent =>
        /\ builds = 0
        /\ cache = NoClient
        /\ InFlight = {}
        /\ checks = 0 => last = NoCall
        /\ checks > 0 => (last.outcome = "error" /\ last.err = ConfigError)

C6_Witness ==
    /\ KeyAbsent
    /\ checks >= 2
    /\ last.err = ConfigError

\* C7: approve_task / cancel_task hand back "Task <id> approved" /
\* "Task <id> cancelled" only when the client operation took effect; when it
\* does not (the task is not AWAITING_APPROVAL, is already terminal, is
\* unknown, or the transport fails) the call raises and the task is unchanged.
C7_Step(c, tool, allowed, after, word) ==
    (Awaiting(c, tool) /\ calls'[c] = Idle) =>
        LET k == TaskOf(calls[c].uuid)
        IN  /\ last'.tool = tool
            /\ last'.outcome \in {"ok", "error"}
            /\ last'.outcome = "ok" =>
                 /\ k # 0
                 /\ tasks[k].status \in allowed
                 /\ tasks'[k].status = after
                 /\ last'.value.text = <<"Task ", calls[c].task_id, word>>
            /\ (k = 0 \/ tasks[k].status \notin allowed) =>
                 last'.outcome = "error"
            /\ last'.outcome = "error" =>
                 /\ tasks' = tasks
                 /\ last'.err \in {"transport", "not_found", "illegal_state"}

C7_ConfirmationOnlyOnSuccess ==
    [][\A c \in Callers :
         /\ C7_Step(c, "approve_task", {"AWAITING_APPROVAL"}, "PROCESSING",
                    " approved")
         /\ C7_Step(c, "cancel_task",
                    {"DRAFT", "AWAITING_APPROVAL", "PROCESSING"}, "CANCELLED",
                    " cancelled")]_vars

C7_Witness ==
    /\ last.tool = "approve_task"
    /\ last.outcome = "error"
    /\ last.err = "illegal_state"
    /\ tasks[1].status = "DRAFT"

C7_WitnessCancelRefused ==
    /\ last.tool = "cancel_task"
    /\ last.outcome = "error"
    /\ last.err = "illegal_state"

C7_WitnessApproved ==
    /\ last.tool = "approve_task"
    /\ last.outcome = "ok"

\* C8: once a task is COMPLETED, CANCELLED or FAILED its status never changes,
\* whatever approve_task, cancel_task and the service do, and once get_task
\* has shown a terminal status every later get_task shows the same one.
C8_TerminalIsFinal ==
    [][\A k \in TaskNos :
         /\ tasks[k].status \in Terminal => tasks'[k].status = tasks[k].status
         /\ observed[k] \in Terminal => observed'[k] = observed[k]]_vars

C8_Witness ==
    /\ observed[1] = "COMPLETED"
    /\ last.tool = "cancel_task"
    /\ last.outcome = "error"
    /\ last.err = "illegal_state"

(***************************************************************************)
(* Claims checked under SpecPaging                                         *)
(***************************************************************************)
\* C5: list_tasks and get_all_task_results reject a page_size outside 1..100
\* or a negative page_number before any client operation is entered: no call
\* is ever waiting on the client with such arguments, and no call is turned
\* down by the service, after the round trip, for its paging.
C5_RejectedBeforeNetwork ==
    /\ \A c \in InFlight :
         calls[c].tool \in {"list_tasks", "get_all_task_results"} =>
             /\ calls[c].page_number >= 0
             /\ calls[c].page_size \in 1..100
    /\ last.tool \in {"list_tasks", "get_all_task_results"} =>
         last.err # "rejected"

(***************************************************************************)
(* Claims checked under SpecFiles                                          *)
(***************************************************************************)
WellFormed(text) == UUID(text).ok

\* C4: a tool given an identifier that is no well-formed UUID (task_id, or
\* download_artifact's artifact_id) is rejected with an argument error before
\* it enters a client operation: no call is ever waiting on the client with
\* such an identifier, and no such call writes to the filesystem.
C4_MalformedIdRejected ==
    \A c \in InFlight :
        /\ WellFormed(calls[c].task_id)
        /\ calls[c].tool = "download_artifact" =>
             WellFormed(calls[c].artifact_id)

\* where download_artifact is asked to save: the path without its empty and
\* "." segments
Location(path) == SelectSeq(path, LAMBDA seg : seg # "" /\ seg # ".")

Joined(loc) ==
    IF Len(loc) = 1 THEN <<loc[1]>> ELSE <<loc[1], "/", loc[2]>>

FetchedBytes(artifact_id) ==
    IF artifact_id = ArtifactText[1] THEN <<80, 75>>
    ELSE IF artifact_id = ArtifactText[2] THEN <<37>>
    ELSE <<>>

\* C10: when download_artifact returns, its message names the path and the
\* number of bytes fetched, the parent directories of the path exist and the
\* file at the path holds exactly the fetched bytes; when the fetch fails the
\* call raises and the filesystem is as it was.
C10_Step(c) ==
    (Awaiting(c, "download_artifact") /\ calls'[c] = Idle) =>
        LET loc == Location(calls[c].path)
            bytes == FetchedBytes(calls[c].artifact_id)
        IN  /\ last'.tool = "download_artifact"
            /\ last'.outcome \in {"ok", "error"}
            /\ last'.outcome = "ok" =>
                 /\ calls[c].artifact_id # Malformed
                 /\ fs'.files[loc] = bytes
                 /\ \A n \in 1..(Len(loc) - 1) : SubSeq(loc, 1, n) \in fs'.dirs
                 /\ last'.value.text =
                      <<"Artifact saved to ", Joined(loc), " (", Len(bytes),
                        " bytes)">>
            /\ calls[c].artifact_id = Malformed => last'.outcome = "error"
            /\ (last'.outcome = "error"
                  /\ last'.err \in {"transport", "not_found"}) => fs' = fs
            /\ last'.outcome = "error" =>
                 last'.err \in {"transport", "not_found", "FileExistsError",
                                "OSError"}

C10_SavedOrUntouched == [][\A c \in Callers : C10_Step(c)]_vars

\* the parent directory did not exist (no directory does at the start), was
\* made, and the file holds the two fetched bytes
C10_Witness ==
    /\ last.tool = "download_artifact"
    /\ last.outcome = "ok"
    /\ last.value.text = <<"Artifact saved to ", <<"out", "/", "a.bin">>, " (", 2,
                      " bytes)">>
    /\ <<"out">> \in fs.dirs
    /\ fs.files[<<"out", "a.bin">>] = <<80, 75>>

C10_WitnessFetchFailed ==
    /\ last.tool = "download_artifact"
    /\ last.err = "not_found"
    /\ fs = NoFs

(***************************************************************************)
(* Claims checked under SpecTz                                             *)
(***************************************************************************)
Digits == {"0", "1", "2", "3", "4", "5", "6", "7", "8", "9"}

\* the text ends in an explicit offset, +hh:mm, -hh:mm, +hhmm or -hhmm
HasOffset(s) ==
    \/ /\ Len(s) >= 6
       /\ s[Len(s) - 5] \in {"+", "-"}
       /\ s[Len(s) - 2] = ":"
       /\ {s[Len(s) - 4], s[Len(s) - 3], s[Len(s) - 1], s[Len(s)]} \subseteq Digits
    \/ /\ Len(s) >= 5
       /\ s[Len(s) - 4] \in {"+", "-"}
       /\ {s[Len(s) - 3], s[Len(s) - 2], s[Len(s) - 1], s[Len(s)]} \subseteq Digits

Zoned(v) ==
    \/ v.kind = "str" /\ (HasOffset(v.s) \/ EndsWith(v.s, "Z") \/ EndsWith(v.s, "z"))
    \/ v.kind = "datetime" /\ v.tzinfo # "None"

\* C3: a text without an offset marker gets "Z" appended, a naive datetime
\* gets UTC, and every value that already carries a zone (an offset of either
\* sign, or a trailing Z or z) comes back unchanged.
C3_Normalised ==
    tz.kind = "decoded" =>
        /\ (tz.v.kind = "str" /\ ~Zoned(tz.v)) =>
             tz.out = StrValue(tz.v.s \o <<"Z">>)
        /\ (tz.v.kind = "datetime" /\ ~Zoned(tz.v)) =>
             tz.out = DatetimeValue(tz.v.wall, "UTC")
        /\ Zoned(tz.v) => tz.out = tz.v

\* the part of C3 the code keeps: positive offsets and trailing Z or z
C3_PositiveOffsetsUnchanged ==
    (tz.kind = "decoded" /\ Zoned(tz.v)
       /\ (tz.v.kind = "str" => ~(HasOffset(tz.v.s) /\ "+" \notin Chars(tz.v.s)))) =>
        tz.out = tz.v

(***************************************************************************)
(* Claims checked under FairSpec                                           *)
(***************************************************************************)
Stopped == tasks[1].status \in {"CANCELLED", "FAILED"}

Rank(status) ==
    CASE status = "ABSENT" -> 0
      [] status = "DRAFT" -> 1
      [] status = "AWAITING_APPROVAL" -> 2
      [] status = "PROCESSING" -> 3
      [] OTHER -> 4

\* create_task hands back the task in DRAFT
C9_CreatedAsDraft ==
    IF last.tool = "create_task" /\ last.outcome = "ok"
    THEN last.value.status = "DRAFT"
    ELSE TRUE

\* a get_task that shows AWAITING_APPROVAL carries the price
C9_QuotedWithPrice ==
    IF last.tool = "get_task" /\ last.outcome = "ok"
    THEN last.value.status = "AWAITING_APPROVAL" =>
             last.value.approval_request_info \in Prices
    ELSE TRUE

\* polling never steps back: PROCESSING is not shown after COMPLETED
C9_InOrder == [][Rank(observed[1]) <= Rank(observed'[1])]_vars

\* get_task_result after COMPLETED was seen: the newest canvas's content
C9_ResultIsLatestCanvas ==
    (last.tool = "get_task_result" /\ last.outcome = "ok") =>
        /\ last.status = "COMPLETED"
        /\ tasks[1].canvases >= 1
        /\ last.value.text = <<"canvas", tasks[1].canvases>>

\* ... or, when the completed task has no canvas, the "no results" text
C9_ResultIsLatestCanvasIfAny ==
    (last.tool = "get_task_result" /\ last.outcome = "ok") =>
        /\ last.status = "COMPLETED"
        /\ last.value.text =
             IF tasks[1].canvases >= 1
             THEN <<"canvas", tasks[1].canvases>>
             ELSE <<"Error: No results found for completed task">>

\* C9 as stated: a created task that is not cancelled and does not fail is
\* eventually shown AWAITING_APPROVAL with its price; approve_task then takes
\* effect; polling then shows PROCESSING and later COMPLETED; and
\* get_task_result then returns the content of the latest canvas.
C9_AsStated ==
    /\ []C9_CreatedAsDraft
    /\ []C9_QuotedWithPrice
    /\ (tasks[1].status = "DRAFT") ~>
           (observed[1] = "AWAITING_APPROVAL" \/ Stopped)
    /\ (observed[1] = "AWAITING_APPROVAL") ~>
           (tasks[1].status \in {"PROCESSING", "COMPLETED"} \/ Stopped)
    /\ (tasks[1].status = "PROCESSING") ~>
           (observed[1] = "PROCESSING" \/ Stopped)
    /\ (observed[1] = "PROCESSING") ~> (observed[1] = "COMPLETED" \/ Stopped)
    /\ C9_InOrder
    /\ []C9_ResultIsLatestCanvas

\* C9 as the code and the service have it: polling need not catch the task
\* in PROCESSING (the service may complete it between two polls), and a
\* completed task may have no canvas, for which get_task_result returns the
\* "no results" text.
C9_Workflow ==
    /\ []C9_CreatedAsDraft
    /\ []C9_QuotedWithPrice
    /\ (tasks[1].status = "DRAFT") ~>
           (observed[1] = "AWAITING_APPROVAL" \/ Stopped)
    /\ (observed[1] = "AWAITING_APPROVAL") ~>
           (tasks[1].status \in {"PROCESSING", "COMPLETED"} \/ Stopped)
    /\ (tasks[1].status = "PROCESSING") ~>
           (observed[1] = "COMPLETED" \/ Stopped)
    /\ C9_InOrder
    /\ []C9_ResultIsLatestCanvasIfAny

C9_Witness ==
    /\ observed[1] = "COMPLETED"
    /\ last.tool = "get_task_result"
    /\ last.outcome = "ok"
    /\ last.value.text = <<"canvas", 2>>

C9_WitnessNoCanvas ==
    /\ observed[1] = "COMPLETED"
    /\ last.tool = "get_task_result"
    /\ last.value.text = <<"Error: No results found for completed task">>

====
